---- MODULE Spec2Model ----
(***************************************************************************)
(* LinMan (win_device_manager.py): the device inventory kept by MainWindow *)
(* and the event loop that refreshes it.                                   *)
(*                                                                         *)
(* Strings are modelled as texts: sequences of tokens.  A token is a word  *)
(* (no blanks inside) or SP2, a run of two or more blanks; two adjacent    *)
(* words are separated by one blank.  Character-level tests of the source  *)
(* (substring, prefix, suffix, case) are tables over the words used.       *)
(***************************************************************************)
EXTENDS Integers, Sequences, FiniteSets, TLC

VARIABLES
    hwinfo_devices,     \* self.hwinfo_devices: ordered dict category -> list of device_info
    cached_gpu_devices, \* self.cached_gpu_devices
    categories,         \* self.categories: the labels that have a category item
    tree,               \* the children of self.root_item, in order
    expanded_states,    \* local of refresh_devices: label -> isExpanded, saved on entry
    gpu_devices,        \* local of refresh_devices: the result of detect_gpus
    pc,                 \* where the running refresh_devices is ("idle": none is running)
    inflight,           \* number of refresh_devices activations entered and not left
    queue,              \* uevents waiting on the monitor socket, oldest first
    timers,             \* armed QTimer.singleShot(500, refresh_devices) timers
    subscribed,         \* the QSocketNotifier is connected and enabled
    lastDrain,          \* outcome of the latest monitor.receive_device() call
    src,                \* what each external tool answered when it was last run
    owedStart,          \* a notification was drained and no refresh has begun since
    owedDone,           \* a notification was drained and no refresh has completed since
    drainBit,           \* flips each time on_hardware_change runs
    outcome,            \* how the latest refresh_devices call ended: "complete" or "raised"
    showHidden,         \* the View > "Show hidden devices" menu entry was triggered
    hangs,              \* the tool the running pass has called does not answer
    lastEvent,          \* the latest kernel uevent: its subsystem, and a bit that flips per event
    call                \* a method called on its own: its name, its argument, what it returned

vars == <<hwinfo_devices, cached_gpu_devices, categories, tree, expanded_states,
          gpu_devices, pc, inflight, queue, timers, subscribed, lastDrain, src,
          owedStart, owedDone, drainBit, outcome, showHidden, hangs, lastEvent, call>>

(***************************************************************************)
(* Bounds of the model.                                                    *)
(***************************************************************************)
MaxSections == 1    \* sections in one hwinfo --short output
MaxQueue == 2       \* uevents waiting unread on the monitor socket
MaxTimers == 2      \* single-shot timers armed at once
MaxRetained == 1    \* entries a detector may pile up in one retained category list

(***************************************************************************)
(* Texts.                                                                  *)
(***************************************************************************)
SP2 == "  "
NoText == << >>

RECURSIVE LStrip(_)
LStrip(t) == IF t # << >> /\ Head(t) = SP2 THEN LStrip(Tail(t)) ELSE t

RECURSIVE RStrip(_)
RStrip(t) == IF t # << >> /\ t[Len(t)] = SP2 THEN RStrip(SubSeq(t, 1, Len(t) - 1)) ELSE t

\* str.strip()
Strip(t) == RStrip(LStrip(t))

\* index of the first token of t in set S, 0 when there is none
RECURSIVE FirstIn(_, _, _)
FirstIn(t, S, i) ==
    IF i > Len(t) THEN 0
    ELSE IF t[i] \in S THEN i
    ELSE FirstIn(t, S, i + 1)

AnyIn(t, S) == \E i \in 1..Len(t) : t[i] \in S

RECURSIVE FlattenSeq(_)
FlattenSeq(ss) == IF ss = << >> THEN << >> ELSE Head(ss) \o FlattenSeq(Tail(ss))

RECURSIVE SumSeq(_)
SumSeq(ns) == IF ns = << >> THEN 0 ELSE Head(ns) + SumSeq(Tail(ns))

(***************************************************************************)
(* The words of the model and what the source's character tests say of     *)
(* them.                                                                   *)
(***************************************************************************)
\* words that end with ':' (str.endswith(':'))
ColonWords == {"interface:", "disk:", "partition:", "keyboard:", "card:", "network:",
               "unknown:", "hub:"}

\* words that begin with "/dev/"
DevWords == {"/dev/sda", "/dev/sda1", "/dev/sda2", "/dev/sg0", "/dev/input/event3",
             "/dev/video0", "/dev/video1", "/dev/ttyUSB0", "/dev/ttyACM0", "/dev/ttyS0",
             "/dev/loop0"}

\* words that begin with "/dev/sd"
SdWords == {"/dev/sda", "/dev/sda1", "/dev/sda2"}

\* words whose last character is '1', and words whose last character is a digit
EndsWith1 == {"/dev/sda1", "/dev/video1", "sda1"}
EndsWithDigit == {"/dev/sda1", "/dev/sda2", "/dev/sg0", "/dev/input/event3", "/dev/video0",
                  "/dev/video1", "/dev/ttyUSB0", "/dev/ttyACM0", "/dev/ttyS0", "/dev/loop0",
                  "sda1", "sda2", "eth0", "dummy0", "docker0", "620"}

\* str.lower() of a word
LowerWord(w) ==
    CASE w = "Loopback" -> "loopback"
      [] w = "Ethernet" -> "ethernet"
      [] w = "Samsung" -> "samsung"
      [] w = "SSD" -> "ssd"
      [] w = "Partition" -> "partition"
      [] w = "AT" -> "at"
      [] w = "Keyboard" -> "keyboard"
      [] w = "USB" -> "usb"
      [] w = "Intel" -> "intel"
      [] w = "UHD" -> "uhd"
      [] w = "Graphics" -> "graphics"
      [] w = "NVIDIA" -> "nvidia"
      [] w = "GeForce" -> "geforce"
      [] w = "Connection" -> "connection"
      [] w = "/dev/ttyUSB0" -> "/dev/ttyusb0"
      [] w = "FTDI" -> "ftdi"
      [] w = "FT232R" -> "ft232r"
      [] w = "Hub" -> "hub"
      [] w = "Disk" -> "disk"
      [] w = "Unknown" -> "unknown"
      [] w = "Realtek" -> "realtek"
      [] w = "RTL8125" -> "rtl8125"
      [] w = "Controller" -> "controller"
      [] OTHER -> w

Lower(t) == [i \in 1..Len(t) |-> LowerWord(t[i])]

\* number of characters of a word; of a text
WordLen(w) ==
    CASE w = SP2 -> 2
      [] w \in {"lo", "AT", "Xe"} -> 2
      [] w \in {"SSD", "USB", "UHD", "620", "AMD", "GTX", "RTX", "Hub"} -> 3
      [] w \in {"eth0", "sda1", "sda2", "1080", "2080", "FTDI", "Disk"} -> 4
      [] w \in {"Intel"} -> 5
      [] w \in {"dummy0", "NVIDIA", "FT232R", "Webcam"} -> 6
      [] w \in {"Samsung", "network", "GeForce", "docker0", "Unknown", "Realtek", "RTL8125"} -> 7
      [] w \in {"Loopback", "Ethernet", "Keyboard", "Graphics", "GRAPHICS", "/dev/sda"} -> 8
      [] w \in {"Partition", "interface"} -> 9
      [] w \in {"Connection", "/dev/loop0", "Controller"} -> 10
      [] w \in {"/dev/ttyUSB0"} -> 12
      [] OTHER -> 9

RECURSIVE CharLen(_)
CharLen(t) ==
    IF t = << >> THEN 0
    ELSE WordLen(Head(t))
         + (IF Len(t) > 1 /\ Head(t) # SP2 /\ t[2] # SP2 THEN 1 ELSE 0)
         + CharLen(Tail(t))

(***************************************************************************)
(* CATEGORY_MAP: subsystem key -> category label.                          *)
(***************************************************************************)
CATEGORY_MAP ==
    [k \in {"net", "sound", "video4linux", "input", "hid", "usb", "block", "graphics",
            "drm", "bluetooth", "pci", "pnp", "printer", "scsi", "tty", "webcams",
            "com_ports", "thermal", "firmware", "acpi", "dmi", "leds"} |->
        CASE k = "net" -> "Network adapters"
          [] k = "sound" -> "Sound, video and game controllers"
          [] k = "video4linux" -> "Cameras"
          [] k = "input" -> "Keyboards"
          [] k = "hid" -> "Mice and other pointing devices"
          [] k = "usb" -> "Universal Serial Bus controllers"
          [] k = "block" -> "Disk drives"
          [] k \in {"graphics", "drm"} -> "Display adapters"
          [] k = "bluetooth" -> "Bluetooth"
          [] k = "printer" -> "Print queues"
          [] k = "scsi" -> "Storage controllers"
          [] k = "tty" -> "Ports"
          [] k = "webcams" -> "Imaging devices"
          [] k = "com_ports" -> "Ports (COM & LPT)"
          [] OTHER -> "System devices"]

CategoryLabel_raw(category) ==
    IF category \in DOMAIN CATEGORY_MAP THEN CATEGORY_MAP[category] ELSE category

\* CATEGORY_MAP.get(category, CATEGORY_MAP.get('pci', ...))[0]
CategoryLabel(category) ==
    IF category \in DOMAIN CATEGORY_MAP THEN CATEGORY_MAP[category] ELSE CATEGORY_MAP["pci"]

(***************************************************************************)
(* Python dicts keep insertion order: a dict is a sequence of <<key, value>>*)
(***************************************************************************)
DictKeys(d) == {d[i][1] : i \in 1..Len(d)}

DictHas(d, k) == k \in DictKeys(d)

DictIndex(d, k) == CHOOSE i \in 1..Len(d) : d[i][1] = k

\* d.get(k, default)
DictGet(d, k, default) == IF DictHas(d, k) THEN d[DictIndex(d, k)][2] ELSE default

\* d[k] = v : an existing key keeps its place, a new key goes last
DictSet(d, k, v) ==
    IF DictHas(d, k) THEN [d EXCEPT ![DictIndex(d, k)] = <<k, v>>]
    ELSE Append(d, <<k, v>>)

(***************************************************************************)
(* device_info dicts.  A key that a dict does not hold is NoText / FALSE / *)
(* the empty list here: the source reads them with .get(key, default).     *)
(***************************************************************************)
NoCat == ""

DeviceInfo(name, path, ocat) ==
    [name |-> name, path |-> path, original_category |-> ocat, enhanced_name |-> NoText,
     is_disk |-> FALSE, partitions |-> << >>, is_com_port |-> FALSE]

\* device_info.get('enhanced_name', device_info['name'])
EnhancedOrName(info) == IF info.enhanced_name # NoText THEN info.enhanced_name ELSE info.name

(***************************************************************************)
(* refresh_hwinfo_devices: parsing `hwinfo --short`.                       *)
(***************************************************************************)
\* line[:-1].lower() of a line that ends with ':'
HeaderKey(line) ==
    CASE line = <<"network", "interface:">> -> "network interface"
      [] line = <<"network:">> -> "network"
      [] line = <<"disk:">> -> "disk"
      [] line = <<"partition:">> -> "partition"
      [] line = <<"keyboard:">> -> "keyboard"
      [] line = <<"graphics", "card:">> -> "graphics card"
      [] line = <<"unknown:">> -> "unknown"
      [] line = <<"hub:">> -> "hub"
      [] OTHER -> "other"

\* category_mapping.get(current_category, current_category)
category_mapping(key) ==
    CASE key \in {"cpu", "monitor", "usb controller", "bridge", "memory", "unknown"} -> "pci"
      [] key = "keyboard" -> "input"
      [] key = "mouse" -> "hid"
      [] key = "graphics card" -> "graphics"
      [] key = "sound" -> "sound"
      [] key \in {"storage", "disk", "partition"} -> "block"
      [] key \in {"network", "network interface"} -> "net"
      [] OTHER -> key

\* line.endswith(':')
EndsWithColon(line) == line # << >> /\ line[Len(line)] \in ColonWords

\* ' /dev/' in line: a /dev/ word with a blank before it
ContainsSpDev(line) == \E i \in 2..Len(line) : line[i] \in DevWords

\* line.split('  ', 1)
SplitDouble(line) ==
    LET j == FirstIn(line, {SP2}, 1)
    IN  IF j = 0 THEN <<line>>
        ELSE <<SubSeq(line, 1, j - 1), SubSeq(line, j + 1, Len(line))>>

\* the device_info of one device line (lines 940-950)
ParseDeviceLine(line, current_category) ==
    LET parts == SplitDouble(line)
    IN  IF ContainsSpDev(line) /\ Len(parts) >= 2
        THEN DeviceInfo(Strip(parts[2]), Strip(parts[1]), current_category)
        ELSE DeviceInfo(Strip(line), NoText, current_category)

\* the category a finished section is stored under (lines 907-908 and 955-956);
\* the assignment replaces whatever the key held
StoreSection(out, current_category, current_devices) ==
    IF current_category # NoCat /\ current_devices # << >>
    THEN DictSet(out, current_category, current_devices)
    ELSE out

\* the loop over the output's lines (lines 902-952); st = [cat, devs, out]
RECURSIVE ParseLines(_, _)
ParseLines(lines, st) ==
    IF lines = << >> THEN st
    ELSE LET line == Strip(Head(lines))
             nxt == IF EndsWithColon(line)
                    THEN [cat |-> category_mapping(HeaderKey(line)),
                          devs |-> << >>,
                          out |-> StoreSection(st.out, st.cat, st.devs)]
                    ELSE IF line = << >> \/ Head(line) = "--"
                    THEN st
                    ELSE [st EXCEPT !.devs = Append(st.devs, ParseDeviceLine(line, st.cat))]
         IN  ParseLines(Tail(lines), nxt)

\* self.hwinfo_devices after the try block (lines 895-960) given hwinfo's result
ParseHwinfo(old, result) ==
    IF result.rc = "raise" THEN << >>
    ELSE IF result.rc # "ok" THEN old
    ELSE LET st == ParseLines(result.out, [cat |-> NoCat, devs |-> << >>, out |-> << >>])
         IN  StoreSection(st.out, st.cat, st.devs)

(***************************************************************************)
(* process_disk_hierarchy.                                                 *)
(***************************************************************************)
\* f"/dev/{name}" and os.path.basename
DevPath(name) ==
    CASE name = "sda" -> "/dev/sda"
      [] name = "sda1" -> "/dev/sda1"
      [] name = "sda2" -> "/dev/sda2"
      [] name = "loop0" -> "/dev/loop0"
      [] OTHER -> "/dev/other"

Basename(path) ==
    CASE path = "/dev/video0" -> "video0"
      [] path = "/dev/video1" -> "video1"
      [] path = "/dev/ttyUSB0" -> "ttyUSB0"
      [] path = "/dev/ttyACM0" -> "ttyACM0"
      [] path = "/dev/ttyS0" -> "ttyS0"
      [] OTHER -> "node"

\* f"({x})", f"({n}" for a count n, name.startswith('sd')
Paren(w) ==
    CASE w = "500G" -> "(500G)"
      [] w = "100G" -> "(100G)"
      [] w = "video0" -> "(video0)"
      [] w = "video1" -> "(video1)"
      [] OTHER -> "(Unknown)"

ParenOpen(n) == "(" \o ToString(n)

SdNames == {"sda", "sda1", "sda2"}

\* a.startswith(b) for words, and for texts
WordStartsWith(a, b) ==
    a = b \/ <<b, a>> \in {<<"/dev/sda", "/dev/sda1">>, <<"/dev/sda", "/dev/sda2">>}

TextStartsWith(t, p) ==
    \/ p = << >>
    \/ /\ Len(p) <= Len(t)
       /\ SubSeq(t, 1, Len(p) - 1) = SubSeq(p, 1, Len(p) - 1)
       /\ WordStartsWith(t[Len(p)], p[Len(p)])

\* get_drive_model_name: the first probe that answers, else f"{disk_name} Drive"
get_drive_model_name(disk) == IF disk.probe # NoText THEN disk.probe ELSE <<disk.name, "Drive">>

\* hw_disk.get('name') of the first hwinfo block entry with this path (lines 1000-1006)
RECURSIVE HwinfoNameFor(_, _)
HwinfoNameFor(disks, disk_path) ==
    IF disks = << >> THEN NoText
    ELSE IF Head(disks).path = disk_path THEN Head(disks).name
    ELSE HwinfoNameFor(Tail(disks), disk_path)

\* one partition dict of the lsblk path (lines 1010-1029)
LsblkPartition(child) ==
    LET mount_point == IF child.mount # NoText THEN child.mount ELSE <<"Not", "mounted">>
    IN  [DeviceInfo(<<child.name>>, <<DevPath(child.name)>>, "block") EXCEPT
            !.enhanced_name = <<child.name, Paren(child.size), "-">> \o mount_point]

RECURSIVE LsblkPartitions(_)
LsblkPartitions(children) ==
    IF children = << >> THEN << >>
    ELSE (IF Head(children).type = "part" THEN <<LsblkPartition(Head(children))>> ELSE << >>)
         \o LsblkPartitions(Tail(children))

\* one disk_entry of the lsblk path (lines 990-1041)
LsblkDisk(disk, disks) ==
    LET disk_path == <<DevPath(disk.name)>>
        hwinfo_name == HwinfoNameFor(disks, disk_path)
        display_name == IF hwinfo_name # NoText THEN hwinfo_name ELSE get_drive_model_name(disk)
        disk_partitions == LsblkPartitions(disk.children)
    IN  [DeviceInfo(display_name, disk_path, "block") EXCEPT
            !.enhanced_name = display_name \o <<Paren(disk.size), "-",
                                                ToString(Len(disk_partitions)), "partitions">>,
            !.is_disk = TRUE,
            !.partitions = disk_partitions]

RECURSIVE LsblkHierarchy(_, _)
LsblkHierarchy(blockdevices, disks) ==
    IF blockdevices = << >> THEN << >>
    ELSE (IF Head(blockdevices).type = "disk" /\ Head(blockdevices).name \in SdNames
          THEN <<LsblkDisk(Head(blockdevices), disks)>> ELSE << >>)
         \o LsblkHierarchy(Tail(blockdevices), disks)

\* the fallback (lines 1052-1093).  The dicts of `disks` are shared between the lists,
\* so they are kept in heap (index -> dict) while the loops write to them.
IsSdPath(info) == info.path # NoText /\ Head(info.path) \in SdWords

IsFallbackDisk(info) == IsSdPath(info) /\ info.path[Len(info.path)] \notin EndsWith1

IsFallbackPartition(info) == IsSdPath(info) /\ info.path[Len(info.path)] \in EndsWithDigit

\* partition['enhanced_name'] after the two lsblk calls of lines 1068-1083
PartitionEnhanced(partition, rc) ==
    CASE rc = "ok" -> partition.name \o <<"(1.0", "GB)", "-", "Not", "mounted">>
      [] rc = "raise" -> partition.name
      [] OTHER -> partition.enhanced_name

\* the inner loop for one disk: st = [heap, parts]
RECURSIVE FallbackPartitions(_, _, _, _)
FallbackPartitions(js, disk_path, rc, st) ==
    IF js = << >> THEN st
    ELSE LET j == Head(js)
             hit == TextStartsWith(st.heap[j].path, disk_path)
             nxt == IF hit
                    THEN [heap |-> [st.heap EXCEPT ![j].enhanced_name =
                                        PartitionEnhanced(st.heap[j], rc)],
                          parts |-> Append(st.parts, j)]
                    ELSE st
         IN  FallbackPartitions(Tail(js), disk_path, rc, nxt)

\* the outer loop: the heap after every disk was handled
RECURSIVE FallbackDisks(_, _, _, _)
FallbackDisks(is, js, rc, heap) ==
    IF is = << >> THEN heap
    ELSE LET i == Head(is)
             disk_name == heap[i].name
             st == FallbackPartitions(js, heap[i].path, rc, [heap |-> heap, parts |-> << >>])
             done == [st.heap EXCEPT
                        ![i].enhanced_name =
                            disk_name \o <<ParenOpen(Len(st.parts)), "partitions)">>,
                        ![i].is_disk = TRUE,
                        ![i].partitions = st.parts]
         IN  FallbackDisks(Tail(is), js, rc, done)

\* the indices of the dicts the two comprehensions of lines 1053-1054 select, in order
DiskIndices(disks) ==
    SelectSeq([i \in 1..Len(disks) |-> i], LAMBDA i : IsFallbackDisk(disks[i]))

PartitionIndices(disks) ==
    SelectSeq([i \in 1..Len(disks) |-> i], LAMBDA i : IsFallbackPartition(disks[i]))

\* a dict as the tree build reads it: its partitions are the dicts they point to
Materialize(heap, i) ==
    [heap[i] EXCEPT !.partitions =
        [k \in 1..Len(heap[i].partitions) |->
            [heap[heap[i].partitions[k]] EXCEPT !.partitions = << >>]]]

FallbackHierarchy(disks, rc) ==
    LET is == DiskIndices(disks)
        js == PartitionIndices(disks)
        heap == FallbackDisks(is, js, rc, [d \in 1..Len(disks) |->
                    [disks[d] EXCEPT !.partitions = << >>]])
    IN  [k \in 1..Len(is) |-> Materialize(heap, is[k])]

\* self.hwinfo_devices after process_disk_hierarchy, given the answers of lsblk
process_disk_hierarchy(hw, lsblk) ==
    LET disks == DictGet(hw, "block", << >>)
        fromLsblk == IF lsblk.rc = "ok" THEN LsblkHierarchy(lsblk.blockdevices, disks) ELSE << >>
        fallback == FallbackHierarchy(disks, lsblk.rc)
    IN  IF fromLsblk # << >> THEN DictSet(hw, "block", fromLsblk)
        ELSE IF fallback # << >> THEN DictSet(hw, "block", fallback)
        ELSE hw

(***************************************************************************)
(* filter_network_devices.                                                 *)
(***************************************************************************)
\* lower-case words in which one of virtual_patterns occurs
VirtualWords == {"lo", "loopback", "dummy0", "tun0", "docker0"}

\* lower-case words that start with 'wl', 'en' or 'eth'
PhysicalPrefixWords == {"eth0", "ethernet", "enp3s0", "wlan0"}

\* lower-case words in which 'wireless', 'ethernet' or 'wifi' occurs
PhysicalWords == {"ethernet", "wireless", "wifi"}

should_hide_never(device) == FALSE

\* lines 1133-1141
should_hide(device) == AnyIn(Lower(device.name), VirtualWords) \/ AnyIn(Lower(device.path), VirtualWords)

LooksPhysical(device) ==
    LET device_name == Lower(device.name)
    IN  \/ device_name # << >> /\ Head(device_name) \in PhysicalPrefixWords
        \/ AnyIn(device_name, PhysicalWords)

NetKeep(device) == ~should_hide(device) /\ LooksPhysical(device)

filter_network_devices(hw) ==
    IF ~DictHas(hw, "net") THEN hw
    ELSE DictSet(hw, "net", SelectSeq(DictGet(hw, "net", << >>), NetKeep))

(***************************************************************************)
(* detect_multimedia_devices, detect_webcams, detect_com_ports.            *)
(***************************************************************************)
\* one webcam dict (lines 1188-1204); lsusb_name is get_webcam_name_from_lsusb()
Webcam(video_path, lsusb_name) ==
    LET device_name == Basename(video_path)
        display_name == (IF lsusb_name # NoText THEN lsusb_name ELSE <<"Webcam">>)
                        \o <<Paren(device_name)>>
    IN  [DeviceInfo(display_name, <<video_path>>, "webcams") EXCEPT
            !.enhanced_name = display_name]

detect_webcams(video) ==
    IF video.rc # "ok" THEN << >>
    ELSE [i \in 1..Len(video.nodes) |-> Webcam(video.nodes[i], video.lsusb)]

\* one COM port dict (lines 1227-1251); port_info is get_usb_serial_info(serial_path)
ComPort(serial_path, port_info) ==
    LET device_name == Basename(serial_path)
        display_name == <<device_name>> \o port_info
    IN  [DeviceInfo(display_name, <<serial_path>>, "com_ports") EXCEPT
            !.enhanced_name = display_name,
            !.is_com_port = TRUE]

\* ttyusb.nodes are the serial nodes of /dev; find -name 'ttyUSB*' prints those it matches
detect_com_ports(ttyusb) ==
    LET usb_serial_devices == SelectSeq(ttyusb.nodes, LAMBDA n : n \in {"/dev/ttyUSB0"})
    IN  IF ttyusb.rc # "ok" THEN << >>
        ELSE [i \in 1..Len(usb_serial_devices) |-> ComPort(usb_serial_devices[i], ttyusb.udev)]

\* if found: self.hwinfo_devices[key].extend(found), the list created when missing
ExtendCategory(hw, key, found) ==
    IF found = << >> THEN hw
    ELSE DictSet(hw, key, DictGet(hw, key, << >>) \o found)

detect_multimedia_devices(hw, video, ttyusb) ==
    ExtendCategory(ExtendCategory(hw, "webcams", detect_webcams(video)),
                   "com_ports", detect_com_ports(ttyusb))

(***************************************************************************)
(* detect_gpus_inxi and the extract_*_gpu_model helpers.                   *)
(***************************************************************************)
DeviceWords == {"Device-1:", "Device-2:"}      \* words in which 'Device-' occurs
DriverWords == {"driver:"}                     \* words in which 'driver' occurs
CameraWords == {"Webcam", "Camera"}            \* words in which 'Webcam' or 'Camera' occurs
IntelWords == {"Intel"}                        \* words in which 'Intel' occurs
AmdLineWords == {"AMD", "[AMD/ATI]", "Radeon", "Ellesmere"}
AmdWords == {"AMD", "[AMD/ATI]"}               \* words in which 'AMD' occurs
AtiWords == {"ATI", "[AMD/ATI]"}               \* words in which 'ATI' occurs
BracketWords == {"[AMD/ATI]"}                  \* words in which '[' and ']' occur
NvidiaWords == {"NVIDIA"}
NvidiaLowWords == {"Nvidia"}

\* 'type USB' in line
HasTypeUsb(line) == \E i \in 1..(Len(line) - 1) : line[i] = "type" /\ line[i + 1] = "USB"

\* text.split(word)[0]: what stands before the first token of S
BeforeFirst(t, S) ==
    LET j == FirstIn(t, S, 1) IN IF j = 0 THEN t ELSE SubSeq(t, 1, j - 1)

\* what stands after the first token of S (the whole text when there is none)
AfterFirst(t, S) ==
    LET j == FirstIn(t, S, 1) IN IF j = 0 THEN t ELSE SubSeq(t, j + 1, Len(t))

\* the text from the first token of S on
FromFirst(t, S) ==
    LET j == FirstIn(t, S, 1) IN IF j = 0 THEN t ELSE SubSeq(t, j, Len(t))

\* runs of blanks that meet are one run
RECURSIVE Squeeze(_)
Squeeze(t) ==
    IF Len(t) < 2 THEN t
    ELSE IF t[1] = SP2 /\ t[2] = SP2 THEN Squeeze(Tail(t))
    ELSE <<Head(t)>> \o Squeeze(Tail(t))

\* text.replace(w, '') for the words w of S, then strip(): a word cut out from between
\* two others leaves their two blanks
CutWords(t, S) ==
    Strip(Squeeze([i \in 1..Len(t) |-> IF t[i] \in S THEN SP2 ELSE t[i]]))

BeforeDriver(t) == Strip(BeforeFirst(t, DriverWords))

extract_intel_gpu_model(line) ==
    IF AnyIn(line, IntelWords)
    THEN CutWords(BeforeDriver(BeforeFirst(AfterFirst(line, IntelWords), IntelWords)),
                  {"Corporation", "Inc."})
    ELSE <<"Intel", "Graphics">>

extract_amd_gpu_model(line) ==
    IF "Ellesmere" \in {line[i] : i \in 1..Len(line)}
        THEN <<"Radeon", "RX", "470/480/570/580/590">>
    ELSE IF /\ "Radeon" \in {line[i] : i \in 1..Len(line)}
            /\ AnyIn(line, BracketWords)
            /\ line[FirstIn(line, BracketWords, 1)] \in AmdWords
        THEN CutWords(BeforeDriver(AfterFirst(line, BracketWords)), {"Corporation"})
    ELSE IF AnyIn(line, AmdWords) /\ AnyIn(line, DriverWords)
        THEN CutWords(BeforeDriver(FromFirst(line, AmdWords)), {"Corporation", "Inc."})
    ELSE IF AnyIn(line, AtiWords) /\ AnyIn(line, DriverWords)
        THEN CutWords(BeforeDriver(FromFirst(line, AtiWords)), {"Technologies", "Inc."})
    ELSE <<"AMD", "Graphics">>

extract_nvidia_gpu_model(line) ==
    LET words == IF AnyIn(line, NvidiaWords) THEN NvidiaWords ELSE NvidiaLowWords
    IN  IF AnyIn(line, NvidiaWords \cup NvidiaLowWords)
        THEN CutWords(BeforeDriver(FromFirst(line, words)), {"Corporation", "Inc."})
        ELSE <<"NVIDIA", "Graphics">>

\* str.lower() / str.upper() of a vendor or model word
UpperWord(w) ==
    CASE w = "Intel" -> "INTEL"
      [] w = "Graphics" -> "GRAPHICS"
      [] w = "GeForce" -> "GEFORCE"
      [] w = "Radeon" -> "RADEON"
      [] w = "Webcam" -> "WEBCAM"
      [] w = "Unknown" -> "UNKNOWN"
      [] w = "Xe" -> "XE"
      [] OTHER -> w

Upper(t) == [i \in 1..Len(t) |-> UpperWord(t[i])]

\* word[:n] for a word longer than n
CutWord(w, n) ==
    CASE w = "Graphics" /\ n = 4 -> "Grap"
      [] w = "1080" /\ n = 1 -> "1"
      [] w = "2080" /\ n = 1 -> "2"
      [] OTHER -> w

\* text[:n], the blanks between words counted
RECURSIVE TakeChars(_, _)
TakeChars(t, n) ==
    IF t = << >> \/ n <= 0 THEN << >>
    ELSE IF WordLen(Head(t)) >= n THEN <<CutWord(Head(t), n)>>
    ELSE <<Head(t)>> \o TakeChars(Tail(t), n - WordLen(Head(t)) - 1)

\* the pieces a word falls into when '-' and '/' become '_'
Pieces(w) ==
    CASE w = "470/480/570/580/590" -> <<"470", "480", "570", "580", "590">>
      [] OTHER -> <<w>>

SysNameChars == 20

\* create_gpu_device.  sys_name is "gpu_<vendor>_<model>" with '_' for ' ', '-' and '/',
\* the model cut to SysNameChars characters; sys_name holds its '_'-separated pieces.
create_gpu_device(gpu_info) ==
    [VENDOR |-> gpu_info.vendor,
     MODEL |-> gpu_info.model,
     sys_name |-> <<"gpu", LowerWord(gpu_info.vendor)>>
                  \o FlattenSeq([i \in 1..Len(TakeChars(gpu_info.model, SysNameChars)) |->
                                    Pieces(TakeChars(gpu_info.model, SysNameChars)[i])]),
     device_path |-> <<"/sys/class/drm/" \o LowerWord(gpu_info.vendor)>>]

NoGpu == [vendor |-> "", model |-> NoText, has_driver |-> FALSE]

GpuComplete(current_gpu) ==
    current_gpu.vendor # "" /\ current_gpu.model # NoText /\ current_gpu.has_driver

\* current_gpu after a 'Device-' line (lines 1797-1815)
GpuFromDeviceLine(line) ==
    IF AnyIn(line, CameraWords) \/ HasTypeUsb(line) THEN NoGpu
    ELSE IF AnyIn(line, IntelWords)
        THEN [vendor |-> "Intel", model |-> extract_intel_gpu_model(line), has_driver |-> FALSE]
    ELSE IF AnyIn(line, AmdLineWords)
        THEN [vendor |-> "AMD", model |-> extract_amd_gpu_model(line), has_driver |-> FALSE]
    ELSE IF AnyIn(line, NvidiaWords \cup NvidiaLowWords)
        THEN [vendor |-> "NVIDIA", model |-> extract_nvidia_gpu_model(line), has_driver |-> FALSE]
    ELSE NoGpu

\* the loop of lines 1787-1820; st = [cur, gpus]
RECURSIVE InxiLines(_, _)
InxiLines(lines, st) ==
    IF lines = << >> THEN st
    ELSE LET line == Strip(Head(lines))
             nxt == IF AnyIn(line, DeviceWords)
                    THEN [cur |-> GpuFromDeviceLine(line),
                          gpus |-> IF GpuComplete(st.cur)
                                   THEN Append(st.gpus, create_gpu_device(st.cur))
                                   ELSE st.gpus]
                    ELSE IF line # << >> /\ Head(line) = "driver:" /\ st.cur.vendor # ""
                    THEN [st EXCEPT !.cur.has_driver = TRUE]
                    ELSE st
         IN  InxiLines(Tail(lines), nxt)

\* the result of detect_gpus_inxi when it returns: rc "ok", "nonzero", or "caught" for the
\* three exception classes of line 1827 (any other exception leaves the method raising)
detect_gpus_inxi(inxi) ==
    IF inxi.rc # "ok" THEN << >>
    ELSE LET st == InxiLines(inxi.out, [cur |-> NoGpu, gpus |-> << >>])
         IN  IF GpuComplete(st.cur) THEN Append(st.gpus, create_gpu_device(st.cur)) ELSE st.gpus

InxiRaises(inxi) == inxi.rc = "uncaught"

(***************************************************************************)
(* filter_real_gpus and detect_gpus.                                       *)
(***************************************************************************)
\* upper-case words in which 'WEBCAM', 'CAMERA' or 'USB' occurs; in which 'UNKNOWN' occurs
NotGpuWords == {"WEBCAM", "CAMERA", "USB"}
UnknownWords == {"UNKNOWN"}

MinVendorChars == 2
MinModelChars == 5

GpuId_exact(gpu) == <<gpu.VENDOR>> \o gpu.MODEL

\* line 1685: f"{vendor}_{model}", both upper-cased
GpuId(gpu) == <<UpperWord(gpu.VENDOR)>> \o Upper(gpu.MODEL)

IsRealGpu(gpu) ==
    /\ ~AnyIn(Upper(gpu.MODEL), NotGpuWords)
    /\ UpperWord(gpu.VENDOR) \notin UnknownWords
    /\ WordLen(gpu.VENDOR) >= MinVendorChars
    /\ ~AnyIn(Upper(gpu.MODEL), UnknownWords)
    /\ CharLen(gpu.MODEL) >= MinModelChars

RECURSIVE FilterGpus(_, _)
FilterGpus(gpus, seen_models) ==
    IF gpus = << >> THEN << >>
    ELSE LET gpu == Head(gpus)
             keep == IsRealGpu(gpu) /\ GpuId(gpu) \notin seen_models
         IN  (IF keep THEN <<gpu>> ELSE << >>)
             \o FilterGpus(Tail(gpus), IF keep THEN seen_models \cup {GpuId(gpu)} ELSE seen_models)

filter_real_gpus(gpus) == FilterGpus(gpus, {})

detect_gpus_nocache(cache, inxi) ==
    LET found == filter_real_gpus(detect_gpus_inxi(inxi))
    IN  IF found # << >> THEN [cache |-> found, result |-> found]
        ELSE [cache |-> cache, result |-> found]

\* detect_gpus: [cache, result] (lines 1638-1661)
detect_gpus(cache, inxi) ==
    LET found == filter_real_gpus(detect_gpus_inxi(inxi))
    IN  IF found # << >> THEN [cache |-> found, result |-> found]
        ELSE [cache |-> cache, result |-> cache]

(***************************************************************************)
(* create_mock_device_from_hwinfo and add_device_to_tree.                  *)
(***************************************************************************)
\* the vendors MockDevice.get looks for, in its order, with the lower-case words in
\* which each occurs
VendorTable ==
    << <<"Intel", {"intel"}>>, <<"AMD", {"amd", "[amd/ati]"}>>, <<"NVIDIA", {"nvidia"}>>,
       <<"ATI", {"ati", "[amd/ati]", "partition", "partitions", "partitions)"}>>, <<"Logitech", {"logitech"}>>, <<"Dell", {"dell"}>>,
       <<"Samsung", {"samsung"}>>, <<"Hitachi", {"hitachi"}>> >>

RECURSIVE VendorIn(_, _)
VendorIn(name, i) ==
    IF i > Len(VendorTable) THEN "Unknown"
    ELSE IF AnyIn(Lower(name), VendorTable[i][2]) THEN VendorTable[i][1]
    ELSE VendorIn(name, i + 1)

\* str.title() of a word
TitleWord(w) ==
    CASE w = "lo" -> "Lo"
      [] w = "RTL8125" -> "Rtl8125"
      [] w = "eth0" -> "Eth0"
      [] w = "network" -> "Network"
      [] w = "interface" -> "Interface"
      [] w = "SSD" -> "Ssd"
      [] w = "AT" -> "At"
      [] w = "USB" -> "Usb"
      [] w = "UHD" -> "Uhd"
      [] w = "NVIDIA" -> "Nvidia"
      [] w = "ATI" -> "Ati"
      [] w = "AMD" -> "Amd"
      [] w = "GeForce" -> "Geforce"
      [] w = "GTX" -> "Gtx"
      [] w = "RTX" -> "Rtx"
      [] w = "gpu" -> "Gpu"
      [] w = "intel" -> "Intel"
      [] w = "nvidia" -> "Nvidia"
      [] w = "amd" -> "Amd"
      [] w = "Grap" -> "Grap"
      [] w = "sda1" -> "Sda1"
      [] w = "sda2" -> "Sda2"
      [] w = "partitions" -> "Partitions"
      [] w = "partitions)" -> "Partitions)"
      [] w = "mounted" -> "Mounted"
      [] w = "(video0)" -> "(Video0)"
      [] w = "(video1)" -> "(Video1)"
      [] w = "GB)" -> "Gb)"
      [] w = "/dev/sg0" -> "/Dev/Sg0"
      [] w = "/dev/ttyUSB0" -> "/Dev/Ttyusb0"
      [] w = "/dev/loop0" -> "/Dev/Loop0"
      [] w = "FTDI" -> "Ftdi"
      [] w = "FT232R" -> "Ft232R"
      [] w = "/" -> "/"
      [] OTHER -> w

Title(t) == [i \in 1..Len(t) |-> TitleWord(t[i])]

\* MockDevice.sys_name and MockDevice.device_path (lines 1611-1613)
MockSysName(category, info) ==
    IF info.path # NoText THEN info.path
    ELSE <<category \o "_" \o ToString(CharLen(info.name))>>

MockDevicePath(category, info) ==
    IF info.path # NoText THEN info.path ELSE <<"/sys/class/" \o category>>

\* get_network_device_name: the first probe that answers (ethtool, sysfs, lspci, hwinfo),
\* else the interface name, which is the device's sys_name
get_network_device_name(sys_name, probe) == IF probe # NoText THEN probe ELSE sys_name

\* display_name and vendor of add_device_to_tree for a MockDevice (lines 2072-2100)
MockDisplay(category, info, probe) ==
    LET raw == EnhancedOrName(info)
        model == IF raw # NoText THEN raw ELSE MockSysName(category, info)
        vendor == Title(<<VendorIn(raw, 1)>>)
        titled == Title(model)
    IN  IF info.is_com_port
            THEN [name |-> IF info.name # NoText THEN info.name ELSE MockSysName(category, info),
                  vendor |-> NoText]
        ELSE IF category = "net"
            THEN [name |-> get_network_device_name(MockSysName(category, info), probe),
                  vendor |-> <<VendorIn(raw, 1)>>]
        ELSE [name |-> IF titled # << >> /\ Head(titled) = Head(vendor)
                       THEN titled ELSE vendor \o titled,
              vendor |-> vendor]

\* the device_data of one tree item (lines 2115-2126), with the items below it
Entry(display, subsystem, device_path, cat_name, children) ==
    [MODEL |-> display.name, VENDOR |-> display.vendor, SUBSYSTEM |-> subsystem,
     DEVPATH |-> device_path, CATEGORY |-> cat_name, children |-> children]

MockEntry(category, info, cat_name, probe, children) ==
    Entry(MockDisplay(category, info, probe), category, MockDevicePath(category, info),
          cat_name, children)

\* a SystemGPU answers '' to ID_MODEL_FROM_DATABASE, ID_MODEL and the ID_VENDOR keys, so
\* the model is its sys_name, '_' turned into ' ' and title-cased, and the vendor is ''
GpuEntry(gpu, cat_name) ==
    Entry([name |-> Title(gpu.sys_name), vendor |-> NoText], "graphics", gpu.device_path,
          cat_name, << >>)

\* the item of one hwinfo device with its partition items (lines 763-775)
DeviceItem(category, info, cat_name, probe) ==
    MockEntry(category, info, cat_name, probe,
              IF info.is_disk /\ info.partitions # << >>
              THEN [k \in 1..Len(info.partitions) |->
                       MockEntry(category, info.partitions[k], cat_name, probe, << >>)]
              ELSE << >>)

(***************************************************************************)
(* The tree build of refresh_devices (lines 743-792).                      *)
(***************************************************************************)
\* the emoji of a CATEGORY_MAP entry, by name
CategoryEmoji(category) ==
    CASE category = "net" -> "antenna"
      [] category = "sound" -> "speaker"
      [] category \in {"video4linux", "webcams"} -> "camera"
      [] category = "input" -> "keyboard"
      [] category = "hid" -> "mouse"
      [] category \in {"usb", "tty", "com_ports"} -> "plug"
      [] category = "block" -> "floppy"
      [] category \in {"graphics", "drm"} -> "desktop"
      [] category = "bluetooth" -> "bars"
      [] category = "printer" -> "printer"
      [] category = "scsi" -> "disc"
      [] category = "thermal" -> "thermometer"
      [] category \in {"firmware", "acpi", "dmi", "leds"} -> "wrench"
      [] OTHER -> "gear"

\* a new category item: text(0) is f"{emoji} {cat_name}"; it is expanded when the
\* saved states hold True under cat_name (lines 750-761)
CategoryItem(emoji, cat_name, saved) ==
    [text |-> <<emoji, cat_name>>, expanded |-> <<cat_name>> \in saved, devices |-> << >>]

IndexOf(seq, x) == CHOOSE i \in 1..Len(seq) : seq[i] = x

EnsureCategory_always(st, emoji, cat_name, saved) ==
    [tree |-> Append(st.tree, CategoryItem(emoji, cat_name, saved)),
     categories |-> Append(st.categories, cat_name)]

\* st = [tree, categories]: categories[i] is the key of self.categories for item tree[i]
EnsureCategory(st, emoji, cat_name, saved) ==
    IF \E i \in 1..Len(st.categories) : st.categories[i] = cat_name THEN st
    ELSE [tree |-> Append(st.tree, CategoryItem(emoji, cat_name, saved)),
          categories |-> Append(st.categories, cat_name)]

AddItems(st, cat_name, items) ==
    [st EXCEPT !.tree[IndexOf(st.categories, cat_name)].devices = @ \o items]

\* the loop over self.hwinfo_devices.items()
RECURSIVE BuildHwinfo(_, _, _, _)
BuildHwinfo(hw, st, saved, probe) ==
    IF hw = << >> THEN st
    ELSE LET category == Head(hw)[1]
             devices == Head(hw)[2]
             cat_name == CategoryLabel(category)
             withCat == EnsureCategory(st, CategoryEmoji(category), cat_name, saved)
             items == [i \in 1..Len(devices) |-> DeviceItem(category, devices[i], cat_name, probe)]
         IN  BuildHwinfo(Tail(hw), AddItems(withCat, cat_name, items), saved, probe)

BuildGpus_always(st, gpus, saved) ==
    IF gpus # << >>
    THEN AddItems(EnsureCategory(st, "desktop", "Display adapters", saved), "Display adapters",
                  [i \in 1..Len(gpus) |-> GpuEntry(gpus[i], "Display adapters")])
    ELSE st

\* lines 777-792
BuildGpus(st, gpus, saved) ==
    IF gpus # << >> /\ ~(\E i \in 1..Len(st.categories) : st.categories[i] = "Display adapters")
    THEN AddItems(EnsureCategory(st, "desktop", "Display adapters", saved), "Display adapters",
                  [i \in 1..Len(gpus) |-> GpuEntry(gpus[i], "Display adapters")])
    ELSE st

BuildTree(hw, gpus, saved, probe) ==
    BuildGpus(BuildHwinfo(hw, [tree |-> << >>, categories |-> << >>], saved, probe), gpus, saved)

\* lines 728-731: the texts of the expanded children of the root
SaveExpanded(t) == {t[i].text : i \in {j \in 1..Len(t) : t[j].expanded}}

(***************************************************************************)
(* What the external tools may answer.  rc is "ok" (exit status 0),        *)
(* "nonzero", or "raise" (subprocess.run raised: binary missing, timeout,  *)
(* permission denied, output that does not decode).                        *)
(***************************************************************************)
LineLo == <<SP2, "lo", SP2, "Loopback", "network", "interface">>
LineEth0 == <<SP2, "eth0", SP2, "Ethernet", "network", "interface">>

Sections ==
    << << <<"network", "interface:">>, LineLo, LineEth0 >>,
       << <<"network", "interface:">>, LineLo >>,
       << <<"disk:">>, <<SP2, "/dev/sda", SP2, "Samsung", "SSD">> >>,
       << <<"partition:">>, <<SP2, "/dev/sda2", SP2, "Partition", "/dev/sg0">>,
          <<SP2, "/dev/sda1", SP2, "Partition">> >>,
       << <<"keyboard:">>, <<SP2, "/dev/input/event3", SP2, "AT", "Keyboard">>,
          <<SP2, "USB", "Keyboard">> >>,
       << <<"graphics", "card:">>, <<SP2, "Intel", "UHD", "Graphics", "620">> >>,
       << <<"unknown:">>, <<SP2, "/dev/ttyUSB0", SP2, "FTDI", "FT232R">> >>,
       << <<"hub:">>, <<SP2, "USB", "Hub">> >>,
       << <<"disk:">>, <<SP2, "/dev/loop0", SP2, "Disk">> >>,
       << <<"network", "interface:">>,
          <<SP2, "docker0", SP2, "Ethernet", "network", "interface">> >>,
       << <<"network:">>, <<SP2, "Realtek", "RTL8125", "Controller">> >> >>

\* the increasing sequences over 1..m of length at most n
RECURSIVE SeqsUpTo(_, _)
SeqsUpTo(m, n) ==
    IF n = 0 THEN {<< >>}
    ELSE LET shorter == SeqsUpTo(m, n - 1)
         IN  shorter \cup {Append(q, x) : q \in shorter, x \in 1..m}

Increasing(q) == \A i \in 1..Len(q) - 1 : q[i] < q[i + 1]

HwinfoOutputs ==
    {FlattenSeq([i \in 1..Len(q) |-> Sections[q[i]]]) :
        q \in {r \in SeqsUpTo(Len(Sections), MaxSections) : Increasing(r)}}

HwinfoResults ==
    {[rc |-> "ok", out |-> o] : o \in HwinfoOutputs}
        \cup {[rc |-> "nonzero", out |-> << >>], [rc |-> "raise", out |-> << >>]}

LsblkSda ==
    [name |-> "sda", type |-> "disk", size |-> "500G", probe |-> <<"Samsung", "SSD">>,
     children |-> << [name |-> "sda1", type |-> "part", size |-> "100G", mount |-> <<"/">>] >>]

LsblkLoop ==
    [name |-> "loop0", type |-> "loop", size |-> "100G", probe |-> NoText, children |-> << >>]

LsblkResults ==
    {[rc |-> "ok", blockdevices |-> <<LsblkLoop, LsblkSda>>],
     [rc |-> "nonzero", blockdevices |-> << >>],
     [rc |-> "raise", blockdevices |-> << >>]}

VideoResults ==
    {[rc |-> "ok", nodes |-> <<"/dev/video0", "/dev/video1">>, lsusb |-> NoText],
     [rc |-> "raise", nodes |-> << >>, lsusb |-> NoText]}

TtyResults ==
    {[rc |-> "ok", nodes |-> <<"/dev/ttyACM0", "/dev/ttyS0", "/dev/ttyUSB0">>,
      udev |-> <<"-", "FTDI", "FT232R">>],
     [rc |-> "raise", nodes |-> << >>, udev |-> NoText]}

InxiIntel ==
    << <<"Graphics:">>, <<SP2, "Device-1:", "Intel", "UHD", "Graphics", "620">>,
       <<SP2, "driver:", "i915">> >>

InxiTwoNvidia ==
    << <<"Graphics:">>, <<SP2, "Device-1:", "NVIDIA", "GeForce", "GTX", "1080">>,
       <<SP2, "driver:", "nvidia">>,
       <<SP2, "Device-2:", "NVIDIA", "GeForce", "RTX", "2080">>,
       <<SP2, "driver:", "nvidia">> >>

\* "caught": TimeoutExpired, CalledProcessError or FileNotFoundError;
\* "uncaught": any other exception of subprocess.run (PermissionError, UnicodeDecodeError)
InxiResults ==
    {[rc |-> "ok", out |-> InxiIntel], [rc |-> "ok", out |-> InxiTwoNvidia],
     [rc |-> "caught", out |-> << >>], [rc |-> "uncaught", out |-> << >>]}

\* the answer of the first network-name probe that succeeds, none here
ProbeResults == {NoText}

AllSources ==
    [hwinfo |-> HwinfoResults, lsblk |-> LsblkResults, video |-> VideoResults,
     ttyusb |-> TtyResults, inxi |-> InxiResults, probe |-> ProbeResults]

\* the sources of the event-loop specification: every tool but inxi is missing
FewSources ==
    [hwinfo |-> {[rc |-> "raise", out |-> << >>]},
     lsblk |-> {[rc |-> "raise", blockdevices |-> << >>]},
     video |-> {[rc |-> "raise", nodes |-> << >>, lsusb |-> NoText]},
     ttyusb |-> {[rc |-> "raise", nodes |-> << >>, udev |-> NoText]},
     inxi |-> {[rc |-> "ok", out |-> InxiIntel], [rc |-> "caught", out |-> << >>],
               [rc |-> "uncaught", out |-> << >>]},
     probe |-> ProbeResults]

Snapshots(S) ==
    [hwinfo : S.hwinfo, lsblk : S.lsblk, video : S.video, ttyusb : S.ttyusb,
     inxi : S.inxi, probe : S.probe]

\* no tool has been run yet in this refresh
Unasked ==
    [hwinfo |-> [rc |-> "unasked", out |-> << >>],
     lsblk |-> [rc |-> "unasked", blockdevices |-> << >>],
     video |-> [rc |-> "unasked", nodes |-> << >>, lsusb |-> NoText],
     ttyusb |-> [rc |-> "unasked", nodes |-> << >>, udev |-> NoText],
     inxi |-> [rc |-> "unasked", out |-> << >>],
     probe |-> NoText]

(***************************************************************************)
(* refresh_hwinfo_devices as a whole, and the inventory.                   *)
(***************************************************************************)
refresh_hwinfo_devices(hw, e) ==
    detect_multimedia_devices(
        filter_network_devices(process_disk_hierarchy(ParseHwinfo(hw, e.hwinfo), e.lsblk)),
        e.video, e.ttyusb)

\* a retained list may take one more round of detector results
Retainable(hw) == \A i \in 1..Len(hw) : Len(hw[i][2]) <= MaxRetained

\* what the tree shows: the category labels with their device items
Inventory(t) == [i \in 1..Len(t) |-> [label |-> t[i].text[2], devices |-> t[i].devices]]

\* every device item of the tree, partitions included
RECURSIVE ItemsOf(_)
ItemsOf(devices) ==
    IF devices = << >> THEN << >>
    ELSE <<[Head(devices) EXCEPT !.children = << >>]>> \o Head(devices).children
         \o ItemsOf(Tail(devices))

AllItems(t) == FlattenSeq([i \in 1..Len(t) |-> ItemsOf(t[i].devices)])

\* refresh_devices run to its end on tree t, with the tools answering e
refresh_devices(t, hw, cache, e) ==
    LET hw2 == refresh_hwinfo_devices(hw, e)
        gpus == detect_gpus(cache, e.inxi)
        built == BuildTree(hw2, gpus.result, SaveExpanded(t), e.probe)
    IN  [tree |-> built.tree, categories |-> built.categories,
         hwinfo_devices |-> hw2, cached_gpu_devices |-> gpus.cache]

(***************************************************************************)
(* The state after MainWindow.__init__ (lines 488-515): the hwinfo pass    *)
(* runs once on its own and once more inside the first refresh_devices.    *)
(***************************************************************************)
\* no method is called on its own
NoCall == [fn |-> "none", arg |-> << >>, ret |-> << >>, returned |-> FALSE]

InitWith(S) ==
    \E e \in Snapshots(S) :
        LET hw1 == refresh_hwinfo_devices(<< >>, e)
            first == refresh_devices(<< >>, hw1, << >>, e)
        IN  /\ ~InxiRaises(e.inxi)
            /\ e.hwinfo.rc = "nonzero" => Retainable(hw1)
            /\ hwinfo_devices = first.hwinfo_devices
            /\ cached_gpu_devices = first.cached_gpu_devices
            /\ categories = first.categories
            /\ tree = first.tree
            /\ src = e
    /\ expanded_states = {}
    /\ gpu_devices = << >>
    /\ pc = "idle"
    /\ inflight = 0
    /\ queue = << >>
    /\ timers = 0
    /\ subscribed = TRUE
    /\ lastDrain = "none"
    /\ owedStart = FALSE
    /\ owedDone = FALSE
    /\ drainBit = FALSE
    /\ outcome = "complete"
    /\ showHidden = FALSE
    /\ hangs = FALSE
    /\ lastEvent = [subsystem |-> "none", bit |-> FALSE]
    /\ call = NoCall

Init == InitWith(AllSources)

LoopInit == InitWith(FewSources)

(***************************************************************************)
(* The Qt event loop (app.exec()): it calls one slot at a time and calls   *)
(* the next only after the running one has returned.                       *)
(***************************************************************************)
LoopIdle_reentrant == TRUE

LoopIdle == pc = "idle"

loopVars == <<queue, timers, subscribed, lastDrain, owedStart, owedDone, drainBit, lastEvent>>
inventoryVars == <<hwinfo_devices, cached_gpu_devices, categories, tree>>
localVars == <<expanded_states, gpu_devices>>

\* the kernel posts a uevent of a subscribed subsystem; ok tells whether
\* monitor.receive_device() will be able to read it
Uevent ==
    /\ subscribed
    /\ Len(queue) < MaxQueue
    /\ \E ok \in BOOLEAN : queue' = Append(queue, ok)
    /\ UNCHANGED <<timers, subscribed, lastDrain, owedStart, owedDone, drainBit, lastEvent>>
    /\ UNCHANGED <<inventoryVars, localVars, showHidden, call, pc, inflight, src, outcome, hangs>>

monitor_filter_noblock == {"usb", "input", "net"}

\* lines 705-708: the subsystems the monitor was told to filter by
monitor_filter == {"usb", "input", "net", "block"}

\* the kernel sends a uevent of some subsystem: the netlink socket of the monitor
\* becomes readable only for a subsystem the monitor filters by
KernelEvent ==
    /\ subscribed
    /\ \E s \in {"usb", "input", "net", "block", "sound", "tty"} :
        /\ lastEvent' = [subsystem |-> s, bit |-> ~lastEvent.bit]
        /\ IF s \in monitor_filter
           THEN /\ Len(queue) < MaxQueue
                /\ \E ok \in BOOLEAN : queue' = Append(queue, ok)
           ELSE UNCHANGED queue
    /\ UNCHANGED <<timers, subscribed, lastDrain, owedStart, owedDone, drainBit>>
    /\ UNCHANGED <<inventoryVars, localVars, showHidden, call, pc, inflight, src, outcome, hangs>>

\* line 721, reached when receive_device() returned
DrainSucceeded ==
    /\ timers < MaxTimers
    /\ timers' = timers + 1
    /\ lastDrain' = "ok"
    /\ owedStart' = TRUE
    /\ owedDone' = TRUE
    /\ UNCHANGED subscribed

DrainFailed_schedules ==
    /\ timers < MaxTimers
    /\ timers' = timers + 1
    /\ lastDrain' = "error"
    /\ UNCHANGED <<subscribed, owedStart, owedDone>>

\* lines 722-723, reached when receive_device() raised
DrainFailed ==
    /\ lastDrain' = "error"
    /\ UNCHANGED <<timers, subscribed, owedStart, owedDone>>

\* on_hardware_change, called by the QSocketNotifier for the oldest waiting uevent
on_hardware_change ==
    /\ LoopIdle
    /\ subscribed
    /\ queue # << >>
    /\ queue' = Tail(queue)
    /\ drainBit' = ~drainBit
    /\ IF Head(queue) THEN DrainSucceeded ELSE DrainFailed
    /\ UNCHANGED <<inventoryVars, localVars, showHidden, call, pc, inflight, src, outcome, hangs, lastEvent>>

(***************************************************************************)
(* refresh_devices, pass by pass.                                          *)
(***************************************************************************)
\* lines 727-735: save the expanded states, clear the tree and self.categories
RefreshBegin ==
    /\ expanded_states' = SaveExpanded(tree)
    /\ tree' = << >>
    /\ categories' = << >>
    /\ pc' = "hwinfo"
    /\ inflight' = inflight + 1
    /\ owedStart' = FALSE
    /\ src' = Unasked
    /\ UNCHANGED <<hwinfo_devices, cached_gpu_devices, gpu_devices, outcome, showHidden, call, hangs>>

\* a single-shot timer armed by on_hardware_change expires
TimerFire ==
    /\ LoopIdle
    /\ timers > 0
    /\ timers' = timers - 1
    /\ RefreshBegin
    /\ UNCHANGED <<queue, subscribed, lastDrain, owedDone, drainBit, lastEvent>>

\* "Scan for hardware changes" in the Action menu or the toolbar
ManualScan ==
    /\ LoopIdle
    /\ RefreshBegin
    /\ UNCHANGED <<queue, timers, subscribed, lastDrain, owedDone, drainBit, lastEvent>>

\* no tool call waits for ever
TimeoutExpired_never == [tool \in {} |-> NoText]

\* every subprocess.run of the refresh carries timeout=; when the time is up it raises
\* TimeoutExpired, and this is what the handler around the call leaves of the answer
TimeoutExpired ==
    [hwinfo |-> [rc |-> "raise", out |-> << >>],
     lsblk |-> [rc |-> "raise", blockdevices |-> << >>],
     video |-> [rc |-> "raise", nodes |-> << >>, lsusb |-> NoText],
     ttyusb |-> [rc |-> "raise", nodes |-> << >>, udev |-> NoText],
     inxi |-> [rc |-> "caught", out |-> << >>],
     probe |-> NoText]

\* the tool that the running pass has called hangs
ToolHangs ==
    /\ pc \in {"hwinfo", "disk", "multimedia", "gpu", "build"}
    /\ ~hangs
    /\ hangs' = TRUE
    /\ UNCHANGED <<inventoryVars, localVars, loopVars, showHidden, call, pc, inflight, src, outcome>>

\* lines 895-960
HwinfoPass(S) ==
    /\ pc = "hwinfo"
    /\ hangs => "hwinfo" \in DOMAIN TimeoutExpired
    /\ \E r \in (IF hangs THEN {TimeoutExpired.hwinfo} ELSE S.hwinfo) :
        /\ r.rc = "nonzero" => Retainable(hwinfo_devices)
        /\ hwinfo_devices' = ParseHwinfo(hwinfo_devices, r)
        /\ src' = [src EXCEPT !.hwinfo = r]
    /\ pc' = "disk"
    /\ hangs' = FALSE
    /\ UNCHANGED <<cached_gpu_devices, categories, tree, localVars, showHidden, call, loopVars,
                   inflight, outcome>>

\* line 963
DiskPass(S) ==
    /\ pc = "disk"
    /\ hangs => "lsblk" \in DOMAIN TimeoutExpired
    /\ \E r \in (IF hangs THEN {TimeoutExpired.lsblk} ELSE S.lsblk) :
        /\ hwinfo_devices' = process_disk_hierarchy(hwinfo_devices, r)
        /\ src' = [src EXCEPT !.lsblk = r]
    /\ pc' = "net"
    /\ hangs' = FALSE
    /\ UNCHANGED <<cached_gpu_devices, categories, tree, localVars, showHidden, call, loopVars,
                   inflight, outcome>>

NetPass_beforeDisk ==
    /\ pc = "disk"
    /\ hwinfo_devices' = filter_network_devices(hwinfo_devices)
    /\ pc' = "multimedia"
    /\ UNCHANGED hangs
    /\ UNCHANGED <<cached_gpu_devices, categories, tree, localVars, showHidden, call, loopVars,
                   inflight, src, outcome>>

\* line 966
NetPass ==
    /\ pc = "net"
    /\ hwinfo_devices' = filter_network_devices(hwinfo_devices)
    /\ pc' = "multimedia"
    /\ UNCHANGED hangs
    /\ UNCHANGED <<cached_gpu_devices, categories, tree, localVars, showHidden, call, loopVars,
                   inflight, src, outcome>>

\* line 969
MultimediaPass(S) ==
    /\ pc = "multimedia"
    /\ hangs => {"video", "ttyusb"} \subseteq DOMAIN TimeoutExpired
    /\ \E v \in (IF hangs THEN {TimeoutExpired.video} ELSE S.video),
          t \in (IF hangs THEN {TimeoutExpired.ttyusb} ELSE S.ttyusb) :
        /\ hwinfo_devices' = detect_multimedia_devices(hwinfo_devices, v, t)
        /\ src' = [src EXCEPT !.video = v, !.ttyusb = t]
    /\ pc' = "gpu"
    /\ hangs' = FALSE
    /\ UNCHANGED <<cached_gpu_devices, categories, tree, localVars, showHidden, call, loopVars,
                   inflight, outcome>>

\* line 741: detect_gpus returns,
GpuReturns(r) ==
    /\ cached_gpu_devices' = detect_gpus(cached_gpu_devices, r).cache
    /\ gpu_devices' = detect_gpus(cached_gpu_devices, r).result
    /\ pc' = "build"
    /\ UNCHANGED <<expanded_states, inflight, outcome>>

\* or the exception of subprocess.run leaves detect_gpus_inxi, detect_gpus and
\* refresh_devices, and the event loop goes on
GpuRaises ==
    /\ pc' = "idle"
    /\ inflight' = inflight - 1
    /\ outcome' = "raised"
    /\ expanded_states' = {}
    /\ UNCHANGED <<cached_gpu_devices, gpu_devices>>

GpuPass(S) ==
    /\ pc = "gpu"
    /\ hangs => "inxi" \in DOMAIN TimeoutExpired
    /\ \E r \in (IF hangs THEN {TimeoutExpired.inxi} ELSE S.inxi) :
        /\ src' = [src EXCEPT !.inxi = r]
        /\ IF InxiRaises(r) THEN GpuRaises ELSE GpuReturns(r)
    /\ hangs' = FALSE
    /\ UNCHANGED <<hwinfo_devices, categories, tree, showHidden, call, loopVars>>

\* lines 743-795
BuildPass(S) ==
    /\ pc = "build"
    /\ hangs => "probe" \in DOMAIN TimeoutExpired
    /\ \E p \in (IF hangs THEN {TimeoutExpired.probe} ELSE S.probe) :
        /\ tree' = BuildTree(hwinfo_devices, gpu_devices, expanded_states, p).tree
        /\ categories' = BuildTree(hwinfo_devices, gpu_devices, expanded_states, p).categories
        /\ src' = [src EXCEPT !.probe = p]
    /\ pc' = "idle"
    /\ inflight' = inflight - 1
    /\ outcome' = "complete"
    /\ owedDone' = FALSE
    /\ expanded_states' = {}
    /\ gpu_devices' = << >>
    /\ hangs' = FALSE
    /\ UNCHANGED <<hwinfo_devices, cached_gpu_devices, showHidden, call>>
    /\ UNCHANGED <<queue, timers, subscribed, lastDrain, owedStart, drainBit, lastEvent>>

\* View > "Show hidden devices" is triggered: the action has no slot (line 631)
ShowHiddenTriggered ==
    /\ LoopIdle
    /\ showHidden' = ~showHidden
    /\ UNCHANGED <<inventoryVars, localVars, loopVars, pc, inflight, src, outcome, hangs, call>>

\* the user expands or collapses a category item of the tree widget
ToggleExpand ==
    /\ LoopIdle
    /\ \E i \in 1..Len(tree) : tree' = [tree EXCEPT ![i].expanded = ~@]
    /\ UNCHANGED <<hwinfo_devices, cached_gpu_devices, categories, localVars, loopVars,
                   pc, inflight, src, outcome, showHidden, call, hangs>>

(***************************************************************************)
(* Specifications.                                                         *)
(***************************************************************************)
\* the inventory under every combination of tool answers, refreshed on request
Next ==
    \/ ManualScan
    \/ HwinfoPass(AllSources)
    \/ DiskPass(AllSources)
    \/ NetPass
    \/ MultimediaPass(AllSources)
    \/ GpuPass(AllSources)
    \/ BuildPass(AllSources)
    \/ ShowHiddenTriggered

Spec == Init /\ [][Next]_vars

\* the event loop with hot-plug notifications, over few tool answers
LoopNext ==
    \/ Uevent
    \/ on_hardware_change
    \/ TimerFire
    \/ ManualScan
    \/ ToggleExpand
    \/ ToolHangs
    \/ HwinfoPass(FewSources)
    \/ DiskPass(FewSources)
    \/ NetPass
    \/ MultimediaPass(FewSources)
    \/ GpuPass(FewSources)
    \/ BuildPass(FewSources)

RefreshStep ==
    \/ HwinfoPass(FewSources)
    \/ DiskPass(FewSources)
    \/ NetPass
    \/ MultimediaPass(FewSources)
    \/ GpuPass(FewSources)
    \/ BuildPass(FewSources)

\* the event loop keeps running: a readable socket and an expired timer are served, and
\* a refresh that was entered runs on (every tool call has a timeout)
FairSpec ==
    /\ LoopInit
    /\ [][LoopNext]_vars
    /\ SF_vars(on_hardware_change)
    /\ SF_vars(TimerFire)
    /\ WF_vars(RefreshStep)

\* the event loop under kernel events of any subsystem
WatchSpec ==
    /\ LoopInit
    /\ [][\/ KernelEvent
          \/ on_hardware_change
          \/ TimerFire
          \/ HwinfoPass(FewSources)
          \/ DiskPass(FewSources)
          \/ NetPass
          \/ MultimediaPass(FewSources)
          \/ GpuPass(FewSources)
          \/ BuildPass(FewSources)]_vars
    /\ SF_vars(on_hardware_change)
    /\ SF_vars(TimerFire)
    /\ WF_vars(RefreshStep)

(***************************************************************************)
(* Methods called on their own, on arguments of bounded size.              *)
(***************************************************************************)
MaxGpus == 3

\* GPU objects as create_gpu_device makes them
GpuPool ==
    {create_gpu_device([vendor |-> "Intel", model |-> <<"UHD", "Graphics", "620">>]),
     create_gpu_device([vendor |-> "Intel", model |-> <<"UHD", "GRAPHICS", "620">>]),
     create_gpu_device([vendor |-> "NVIDIA", model |-> <<"GeForce", "GTX", "1080">>]),
     create_gpu_device([vendor |-> "NVIDIA", model |-> <<"USB", "Graphics">>]),
     create_gpu_device([vendor |-> "Unknown", model |-> <<"UHD", "Graphics", "620">>]),
     create_gpu_device([vendor |-> "Intel", model |-> <<"Xe">>])}

MaxChain == 6

\* find_pci_parent on a device given as the subsystems of the device, of its parent, of
\* the parent's parent, ... up to the device without parent; hops counts the steps to a
\* parent.  The loop runs while the current device has a parent (lines 1697-1700).
RECURSIVE PciWalk(_, _)
PciWalk(chain, hops) ==
    IF Len(chain) <= 1 THEN [outcome |-> "none", hops |-> hops]
    ELSE IF Head(chain) = "pci" THEN [outcome |-> "found", hops |-> hops]
    ELSE PciWalk(Tail(chain), hops + 1)

find_pci_parent(chain) == PciWalk(chain, 0)

\* block entries with a path, as the hwinfo parse stores them
SdPool ==
    {DeviceInfo(<<"Samsung", "SSD">>, <<"/dev/sda">>, "block"),
     DeviceInfo(<<"Partition">>, <<"/dev/sda1">>, "block"),
     DeviceInfo(<<"Partition">>, <<"/dev/sda2">>, "block")}

MethodInit ==
    /\ call \in [fn : {"filter_real_gpus"},
                 arg : UNION {[1..n -> GpuPool] : n \in 0..MaxGpus},
                 ret : {<< >>}, returned : {FALSE}]
            \cup [fn : {"find_pci_parent"},
                  arg : UNION {[1..n -> {"usb", "pci"}] : n \in 1..MaxChain},
                  ret : {<< >>}, returned : {FALSE}]
            \cup [fn : {"process_disk_hierarchy"},
                  arg : {l \in UNION {[1..n -> SdPool] : n \in 1..Cardinality(SdPool)} :
                            \A i, j \in 1..Len(l) : i # j => l[i] # l[j]},
                  ret : {<< >>}, returned : {FALSE}]
            \cup [fn : {"refresh_hwinfo_devices", "refresh_devices"},
                  arg : {Sections[p[1]] \o Sections[p[2]] :
                            p \in {q \in (1..Len(Sections)) \X (1..Len(Sections)) :
                                      Sections[q[1]][1] # Sections[q[2]][1]}},
                  ret : {<< >>}, returned : {FALSE}]
    /\ hwinfo_devices = << >>
    /\ cached_gpu_devices = << >>
    /\ categories = << >>
    /\ tree = << >>
    /\ src = Unasked
    /\ expanded_states = {}
    /\ gpu_devices = << >>
    /\ pc = "idle"
    /\ inflight = 0
    /\ queue = << >>
    /\ timers = 0
    /\ subscribed = FALSE
    /\ lastDrain = "none"
    /\ owedStart = FALSE
    /\ owedDone = FALSE
    /\ drainBit = FALSE
    /\ outcome = "complete"
    /\ showHidden = FALSE
    /\ hangs = FALSE
    /\ lastEvent = [subsystem |-> "none", bit |-> FALSE]

methodVars == <<inventoryVars, localVars, loopVars, showHidden, pc, inflight, src, outcome, hangs>>

\* lines 1663-1691
CallFilterRealGpus ==
    /\ call.fn = "filter_real_gpus"
    /\ ~call.returned
    /\ call' = [call EXCEPT !.ret = filter_real_gpus(call.arg), !.returned = TRUE]
    /\ UNCHANGED methodVars

\* lines 1693-1703
CallFindPciParent ==
    /\ call.fn = "find_pci_parent"
    /\ ~call.returned
    /\ call' = [call EXCEPT !.ret = find_pci_parent(call.arg), !.returned = TRUE]
    /\ UNCHANGED methodVars

\* lines 895-956, on an output of two sections
CallParseHwinfo ==
    /\ call.fn = "refresh_hwinfo_devices"
    /\ ~call.returned
    /\ call' = [call EXCEPT !.ret = ParseHwinfo(<< >>, [rc |-> "ok", out |-> call.arg]),
                            !.returned = TRUE]
    /\ UNCHANGED methodVars

\* lines 976-1093 with lsblk failing: the hwinfo fallback
CallProcessDiskHierarchy ==
    /\ call.fn = "process_disk_hierarchy"
    /\ ~call.returned
    /\ call' = [call EXCEPT
                  !.ret = DictGet(process_disk_hierarchy(<< <<"block", call.arg>> >>,
                                      [rc |-> "raise", blockdevices |-> << >>]), "block", << >>),
                  !.returned = TRUE]
    /\ UNCHANGED methodVars

\* lines 725-796: a whole refresh on an empty tree, hwinfo printing two sections, lsblk
\* and find failing, inxi reporting one GPU
CallRefreshDevices ==
    /\ call.fn = "refresh_devices"
    /\ ~call.returned
    /\ call' = [call EXCEPT
                  !.ret = refresh_devices(<< >>, << >>, << >>,
                              [Unasked EXCEPT !.hwinfo = [rc |-> "ok", out |-> call.arg],
                                              !.lsblk.rc = "raise",
                                              !.video.rc = "raise",
                                              !.ttyusb.rc = "raise",
                                              !.inxi = [rc |-> "ok", out |-> InxiIntel]]).tree,
                  !.returned = TRUE]
    /\ UNCHANGED methodVars

MethodNext ==
    \/ CallFilterRealGpus
    \/ CallRefreshDevices
    \/ CallProcessDiskHierarchy
    \/ CallParseHwinfo
    \/ CallFindPciParent

MethodSpec == MethodInit /\ [][MethodNext]_vars

(***************************************************************************)
(* Properties.                                                             *)
(***************************************************************************)
\* no refresh is running and the latest one ran to its end
Settled == pc = "idle" /\ outcome = "complete"

\* the sources as the latest refresh saw them, and the same with hwinfo exiting non-zero
SourcesUnchanged == {src, [src EXCEPT !.hwinfo = [rc |-> "nonzero", out |-> << >>]]}

\* C1: a refresh run while every source answers as it did in the previous refresh, or
\* while hwinfo exits non-zero and the detectors answer as before, leaves the
\* inventory exactly as the previous refresh left it.
C1_RefreshIdempotent ==
    Settled =>
        \A e \in SourcesUnchanged :
            Inventory(refresh_devices(tree, hwinfo_devices, cached_gpu_devices, e).tree)
                = Inventory(tree)

\* C2: after a refresh no two entries of the inventory have the same DEVPATH.
C2_DevpathUnique ==
    Settled =>
        \A i, j \in 1..Len(AllItems(tree)) :
            i # j => AllItems(tree)[i].DEVPATH # AllItems(tree)[j].DEVPATH

\* C3: a burst of notifications is answered by one refresh: when a debounce timer
\* expires and starts the refresh, no other debounce timer is left armed.
C3_OneRefreshPerBurst == [][timers' < timers => timers' = 0]_vars

\* C4: refresh_devices never ends by raising, whichever way a tool fails.
C4_NeverRaises == outcome # "raised"

\* C5: the inventory after a refresh is the one the answers of that refresh give when
\* nothing is kept from before: no retained hwinfo result, no cached GPU.
C5_FromScratch ==
    Settled => Inventory(tree) = Inventory(refresh_devices(<< >>, << >>, << >>, src).tree)

\* C6: at most one refresh is in flight: none starts while another has cleared the
\* tree and has not yet rebuilt it.
C6_SingleFlight ==
    /\ inflight <= 1
    /\ inflight = 1 <=> pc # "idle"

\* a refresh has cleared the tree and is still rebuilding while a timer is armed and
\* a notification waits
C6_Witness == pc = "build" /\ tree = << >> /\ timers > 0 /\ queue # << >>

\* C7: the handler that drains a notification does not run the refresh itself, and
\* every drained notification is eventually followed by a refresh that runs to its end.
C7_DrainedThenRefreshed ==
    /\ [][drainBit' # drainBit => UNCHANGED <<pc, inflight, inventoryVars>>]_vars
    /\ owedDone ~> ~owedDone

\* C8: a drain that fails arms no timer, leaves the inventory and the subscription as
\* they are; notifications that wait afterwards are still drained, and a drained
\* notification is followed by the start of a refresh.
C8_DrainFailureIsolated ==
    /\ [][(drainBit' # drainBit /\ lastDrain' = "error") =>
            (timers' = timers /\ subscribed' /\ UNCHANGED <<pc, inflight, inventoryVars>>)]_vars
    /\ \A b \in BOOLEAN :
        (lastDrain = "error" /\ queue # << >> /\ drainBit = b) ~> (drainBit # b)
    /\ owedStart ~> ~owedStart

\* a drain has failed, the watcher is subscribed and another notification waits
C8_Witness == lastDrain = "error" /\ subscribed /\ queue # << >> /\ pc = "idle"

\* hwinfo answered in the latest refresh and listed the loopback interface
LoReported ==
    /\ src.hwinfo.rc = "ok"
    /\ \E i \in 1..Len(src.hwinfo.out) : src.hwinfo.out[i] = LineLo

LoInfo == ParseDeviceLine(Strip(LineLo), "net")

LoKept ==
    \E i \in 1..Len(hwinfo_devices) :
        /\ hwinfo_devices[i][1] = "net"
        /\ \E k \in 1..Len(hwinfo_devices[i][2]) : hwinfo_devices[i][2][k].name = LoInfo.name

LoShown ==
    \E i \in 1..Len(AllItems(tree)) :
        /\ AllItems(tree)[i].SUBSYSTEM = "net"
        /\ AllItems(tree)[i].MODEL = MockDisplay("net", LoInfo, src.probe).name

\* C9: a network device without a physical parent, such as the loopback interface,
\* is not dropped: it is in the inventory after the refresh that saw it.
C9_OrphanSurfaces == (Settled /\ LoReported) => LoKept

\* C10: the loopback interface is kept in the inventory as a hidden entry, left out
\* of the displayed list by default and shown once "Show hidden devices" is on.
C10_LoopbackHidden ==
    (Settled /\ LoReported) => (LoKept /\ (LoShown <=> showHidden))

\* hwinfo listed the USB serial adapter and /dev holds the tty node that hangs off it
AdapterWithTty ==
    /\ src.hwinfo.rc = "ok"
    /\ \E i \in 1..Len(src.hwinfo.out) :
        src.hwinfo.out[i] = <<SP2, "/dev/ttyUSB0", SP2, "FTDI", "FT232R">>
    /\ src.ttyusb.rc = "ok"
    /\ \E i \in 1..Len(src.ttyusb.nodes) : src.ttyusb.nodes[i] = "/dev/ttyUSB0"

\* the tree items that show the adapter or its tty node
AdapterEntries ==
    {i \in 1..Len(AllItems(tree)) :
        \E k \in 1..Len(AllItems(tree)[i].MODEL) :
            AllItems(tree)[i].MODEL[k] \in {"FT232R", "Ft232R"}}

\* C11: a physical device and the tty node below it are merged: after the refresh
\* there is exactly one entry for them, under 'Ports (COM & LPT)'.
C11_TtyMerged ==
    (Settled /\ AdapterWithTty) =>
        /\ Cardinality(AdapterEntries) = 1
        /\ \A i \in AdapterEntries : AllItems(tree)[i].CATEGORY = "Ports (COM & LPT)"

\* C12: a refresh keeps the expanded state of the categories: a category that was
\* expanded when the refresh began is expanded when it ends, and one that was not is
\* collapsed (expanded_states holds the texts of the items expanded at the beginning).
C12_ExpandedPreserved ==
    [][(pc = "build" /\ pc' = "idle") =>
        \A i \in 1..Len(tree') : tree'[i].expanded <=> (tree'[i].text \in expanded_states)]_vars

\* C13: a refresh always terminates, whatever tools hang: each call is abandoned at its
\* timeout, refresh_devices returns, and a hot-plug notification that arrived while the
\* refresh was running is handled afterwards.
C13_RefreshTerminates ==
    /\ (pc # "idle") ~> (pc = "idle")
    /\ \A b \in BOOLEAN : (pc # "idle" /\ queue # << >> /\ drainBit = b) ~> (drainBit # b)

\* a tool hangs in a running refresh while a notification waits on the socket
C13_Witness == pc # "idle" /\ hangs /\ queue # << >>

\* the labels of the category items of the tree
ShownLabels == {tree[i].text[2] : i \in 1..Len(tree)}

\* C14: after every refresh the inventory has a Processors category and a Memory
\* category, whatever the device sources report.
C14_ProcessorsAndMemory == Settled => {"Processors", "Memory"} \subseteq ShownLabels

\* the serial nodes of /dev that the latest refresh could see
SerialNodes ==
    IF src.ttyusb.rc = "ok" THEN {src.ttyusb.nodes[i] : i \in 1..Len(src.ttyusb.nodes)} ELSE {}

\* the DEVPATHs of the entries under 'Ports (COM & LPT)'
PortPaths ==
    {AllItems(tree)[i].DEVPATH : i \in {k \in 1..Len(AllItems(tree)) :
                                          AllItems(tree)[k].CATEGORY = "Ports (COM & LPT)"}}

\* C15: after a refresh every ttyUSB* and ttyACM* node of /dev has an entry under
\* 'Ports (COM & LPT)', and a legacy ttyS* node has none.
C15_SerialPortsListed ==
    Settled =>
        /\ \A n \in SerialNodes \cap {"/dev/ttyUSB0", "/dev/ttyACM0"} : <<n>> \in PortPaths
        /\ <<"/dev/ttyS0">> \notin PortPaths

\* an entry of a loop device: /dev/loop0 is in its name or its path
IsLoopEntry(item) ==
    \/ \E k \in 1..Len(item.MODEL) : item.MODEL[k] \in {"/dev/loop0", "/Dev/Loop0"}
    \/ \E k \in 1..Len(item.DEVPATH) : item.DEVPATH[k] = "/dev/loop0"

\* C16: after a refresh no entry under 'Disk drives' is a loop, ramdisk or
\* device-mapper device, whichever way process_disk_hierarchy took.
C16_NoLoopUnderDiskDrives ==
    Settled =>
        \A i \in 1..Len(AllItems(tree)) :
            AllItems(tree)[i].CATEGORY = "Disk drives" => ~IsLoopEntry(AllItems(tree)[i])

\* the entries of self.hwinfo_devices['net']
NetList == DictGet(hwinfo_devices, "net", << >>)

\* a virtual interface: its lower-cased name or path has a word with one of the
\* substrings lo, docker, tun, dummy
IsVirtualInterface(d) ==
    \/ \E k \in 1..Len(d.name) : LowerWord(d.name[k]) \in {"lo", "loopback", "docker0", "tun0", "dummy0"}
    \/ \E k \in 1..Len(d.path) : LowerWord(d.path[k]) \in {"lo", "loopback", "docker0", "tun0", "dummy0"}

\* C17: once filter_network_devices has run, and so after every refresh, no entry of
\* the network list has a virtual-interface substring in its name or its path.
C17_NoVirtualInterfaces ==
    pc \notin {"disk", "net"} => \A i \in 1..Len(NetList) : ~IsVirtualInterface(NetList[i])

\* filter_network_devices has just run on a list in which hwinfo reported docker0
C17_Witness ==
    /\ pc = "multimedia"
    /\ src.hwinfo.rc = "ok"
    /\ \E i \in 1..Len(src.hwinfo.out) : "docker0" \in {src.hwinfo.out[i][k] : k \in 1..Len(src.hwinfo.out[i])}

\* the entries made from the hwinfo section 'hub', a category CATEGORY_MAP does not hold
HubEntries ==
    {i \in 1..Len(AllItems(tree)) :
        \E k \in 1..Len(AllItems(tree)[i].MODEL) : AllItems(tree)[i].MODEL[k] = "Hub"}

\* C18: every entry of the tree carries one of the labels of CATEGORY_MAP, and an entry
\* whose source category has no mapping is labelled 'System devices'.
C18_EveryEntryLabelled ==
    /\ \A i \in 1..Len(AllItems(tree)) :
        AllItems(tree)[i].CATEGORY \in {CATEGORY_MAP[k] : k \in DOMAIN CATEGORY_MAP}
    /\ \A i \in HubEntries : AllItems(tree)[i].CATEGORY = "System devices"

\* a refresh has built the entry of a device that hwinfo listed under 'hub:'
C18_Witness ==
    /\ Settled
    /\ src.hwinfo.rc = "ok" /\ <<"hub:">> \in {src.hwinfo.out[i] : i \in 1..Len(src.hwinfo.out)}
    /\ HubEntries # {}

\* C19: the hot-plug subscription admits exactly usb, input, net and block.  Only an
\* event of these four reaches the notifier, every event of these four does, a refresh
\* is scheduled only by the handler of a delivered event, the handler of a delivered
\* event that it can read schedules one, and every delivered event gets its handler.
C19_AdmitsExactlyFour ==
    /\ [][Len(queue') > Len(queue) =>
            lastEvent'.subsystem \in {"usb", "input", "net", "block"}]_vars
    /\ [][(lastEvent' # lastEvent /\ lastEvent'.subsystem \in {"usb", "input", "net", "block"}) =>
            Len(queue') > Len(queue)]_vars
    /\ [][timers' > timers => Len(queue') < Len(queue)]_vars
    /\ [][(Len(queue') < Len(queue) /\ Head(queue)) => timers' = timers + 1]_vars
    /\ \A b \in BOOLEAN : (queue # << >> /\ drainBit = b) ~> (drainBit # b)

\* a refresh is scheduled for a delivered event, and the latest kernel event was one
\* of a subsystem outside the four
C19_Witness ==
    /\ lastEvent.subsystem \in {"sound", "tty"}
    /\ owedStart
    /\ timers > 0

\* C20: within a refresh the passes run one after another in the fixed order hwinfo
\* parse, disk hierarchy, network filter, webcam and COM-port detection, GPU detection,
\* tree build: the running pass is always followed by the next of the order (or the
\* refresh ends), the device lists change only in their gathering passes, and the tree
\* is filled only by the build pass, when every tool of the refresh has been asked.
C20_FixedPassOrder ==
    /\ [][pc' # pc =>
            <<pc, pc'>> \in {<<"idle", "hwinfo">>, <<"hwinfo", "disk">>, <<"disk", "net">>,
                             <<"net", "multimedia">>, <<"multimedia", "gpu">>,
                             <<"gpu", "build">>, <<"gpu", "idle">>, <<"build", "idle">>}]_vars
    /\ [][hwinfo_devices' # hwinfo_devices =>
            pc \in {"hwinfo", "disk", "net", "multimedia"}]_vars
    /\ [][<<cached_gpu_devices, gpu_devices>>' # <<cached_gpu_devices, gpu_devices>> =>
            pc \in {"gpu", "build"}]_vars
    /\ [][(tree' # tree /\ tree' # << >>) =>
            /\ pc = "build"
            /\ \A tool \in {"hwinfo", "lsblk", "video", "ttyusb", "inxi"} :
                  src[tool].rc # "unasked"]_vars

\* every gathering pass of the running refresh is done and the tree is still empty
C20_Witness ==
    /\ pc = "build"
    /\ tree = << >>
    /\ src.inxi.rc # "unasked"
    /\ DictHas(hwinfo_devices, "com_ports")

\* the device items under 'Display adapters' in tree t
DisplayAdapters(t) ==
    FlattenSeq([i \in 1..Len(t) |->
        IF t[i].text[2] = "Display adapters" THEN t[i].devices ELSE << >>])

\* the hwinfo data holds a category shown as 'Display adapters'
HwinfoHasDisplay == DictHas(hwinfo_devices, "graphics") \/ DictHas(hwinfo_devices, "drm")

\* C21: the GPUs of the detector enter the tree only when the hwinfo data of the same
\* refresh gave no 'Display adapters' category.  At the tree build: with such a category
\* from hwinfo no entry under it is a detector GPU, and without one the category is
\* there exactly when the detector returned GPUs, holding these GPUs and no other entry.
C21_GpusOnlyWithoutHwinfo ==
    [][(pc = "build" /\ pc' = "idle") =>
        /\ HwinfoHasDisplay =>
            \A i \in 1..Len(DisplayAdapters(tree')) :
                \A k \in 1..Len(gpu_devices) :
                    DisplayAdapters(tree')[i].DEVPATH # gpu_devices[k].device_path
        /\ ~HwinfoHasDisplay =>
            [i \in 1..Len(DisplayAdapters(tree')) |-> DisplayAdapters(tree')[i].DEVPATH]
                = [k \in 1..Len(gpu_devices) |-> gpu_devices[k].device_path]
        /\ ~HwinfoHasDisplay =>
            (("Display adapters" \in {tree'[i].text[2] : i \in 1..Len(tree')})
                <=> gpu_devices # << >>)]_vars

\* the tree is about to be built from hwinfo data with a graphics card and from
\* a non-empty detector result
C21_Witness == pc = "build" /\ HwinfoHasDisplay /\ gpu_devices # << >>

\* C22: detected GPUs persist.  The cache, once filled, is never emptied; and when
\* detect_gpus returns: with a filled cache the result is not empty, a detection that
\* yields nothing returns the cache and leaves it, and a detection that yields GPUs
\* makes them the cache.
C22_GpusPersist ==
    /\ [][cached_gpu_devices # << >> => cached_gpu_devices' # << >>]_vars
    /\ [][(pc = "gpu" /\ pc' = "build") =>
            LET detected == filter_real_gpus(detect_gpus_inxi(src'.inxi))
            IN  /\ cached_gpu_devices # << >> => gpu_devices' # << >>
                /\ detected = << >> =>
                    gpu_devices' = cached_gpu_devices /\ UNCHANGED cached_gpu_devices
                /\ detected # << >> => cached_gpu_devices' = detected]_vars

\* a detection that found nothing has returned the GPUs cached by an earlier one
C22_Witness ==
    /\ pc = "build"
    /\ src.inxi.rc = "caught"
    /\ gpu_devices # << >>
    /\ gpu_devices = cached_gpu_devices

\* b is a with some entries left out, the order kept
RECURSIVE IsSubList(_, _)
IsSubList(b, a) ==
    IF b = << >> THEN TRUE
    ELSE IF a = << >> THEN FALSE
    ELSE IF Head(a) = Head(b) THEN IsSubList(Tail(b), Tail(a))
    ELSE IsSubList(b, Tail(a))

\* two GPUs with the same vendor and model, compared case-insensitively
SameGpu(g, h) ==
    UpperWord(g.VENDOR) = UpperWord(h.VENDOR) /\ Upper(g.MODEL) = Upper(h.MODEL)

C24_ParentWalkBounded ==
    (call.fn = "find_pci_parent" /\ call.returned) =>
        /\ call.ret.hops <= 4
        /\ call.ret.outcome \in {"found", "none", "depth exceeded"}

\* the internal category of line k of an hwinfo output: the mapped key of the latest
\* header above it
SectionOf(out, k) ==
    LET h == CHOOSE h \in 1..(k - 1) :
                /\ EndsWithColon(Strip(out[h]))
                /\ \A g \in (h + 1)..(k - 1) : ~EndsWithColon(Strip(out[g]))
    IN  category_mapping(HeaderKey(Strip(out[h])))

\* C25: no parsed device is lost when several hwinfo sections map to the same internal
\* category: after the parse every device line of every section is in the list of its
\* mapped category.
C25_NoDeviceLost ==
    (call.fn = "refresh_hwinfo_devices" /\ call.returned) =>
        \A k \in 1..Len(call.arg) :
            ~EndsWithColon(Strip(call.arg[k])) =>
                \E i \in 1..Len(DictGet(call.ret, SectionOf(call.arg, k), << >>)) :
                    DictGet(call.ret, SectionOf(call.arg, k), << >>)[i]
                        = ParseDeviceLine(Strip(call.arg[k]), SectionOf(call.arg, k))

\* C26: a GPU found by the detector is shown with the vendor and the full model that
\* were detected: at the tree build that adds the detector's GPUs, the entry of each
\* holds its vendor as VENDOR and, as MODEL and display name, its model with or without
\* the vendor in front.
C26_GpuShownAsDetected ==
    [][(pc = "build" /\ pc' = "idle" /\ ~HwinfoHasDisplay /\ gpu_devices # << >>) =>
        /\ Len(DisplayAdapters(tree')) = Len(gpu_devices)
        /\ \A i \in 1..Len(gpu_devices) :
            /\ DisplayAdapters(tree')[i].VENDOR = <<gpu_devices[i].VENDOR>>
            /\ DisplayAdapters(tree')[i].MODEL
                \in {gpu_devices[i].MODEL, <<gpu_devices[i].VENDOR>> \o gpu_devices[i].MODEL}]_vars

\* C27: filter_network_devices never removes a device whose name and path hold no
\* virtual-interface marker: every such entry of the network list is still in the list
\* after the filter.
C27_PhysicalKept ==
    [][(pc = "net" /\ pc' = "multimedia") =>
        \A i \in 1..Len(NetList) :
            ~IsVirtualInterface(NetList[i]) =>
                \E k \in 1..Len(NetList') : NetList'[k] = NetList[i]]_vars

\* the places <<i, k>> where the entry of path q is a child in the hierarchy h
ChildPlaces(h, q) ==
    {p \in (1..Len(h)) \X (1..Cardinality(SdPool)) :
        p[2] <= Len(h[p[1]].partitions) /\ h[p[1]].partitions[p[2]].path = <<q>>}

\* C28: on the hwinfo fallback path, for a list of /dev/sd* entries with their disk,
\* each partition appears exactly once, as a child of the disk whose path is its
\* prefix, and never as a top-level disk or as a child of itself.
C28_PartitionsOnce ==
    (/\ call.fn = "process_disk_hierarchy" /\ call.returned
     /\ \E i \in 1..Len(call.arg) : call.arg[i].path = <<"/dev/sda">>) =>
        \A q \in {"/dev/sda1", "/dev/sda2"} :
            (\E i \in 1..Len(call.arg) : call.arg[i].path = <<q>>) =>
                /\ \A i \in 1..Len(call.ret) : call.ret[i].path # <<q>>
                /\ Cardinality(ChildPlaces(call.ret, q)) = 1
                /\ \A p \in ChildPlaces(call.ret, q) : call.ret[p[1]].path = <<"/dev/sda">>

\* C29: after a refresh each category label appears at most once among the children of
\* the root item, also when several source categories map to the label, and every
\* device item is below the category item whose label is its own category.
C29_OneItemPerLabel ==
    (call.fn = "refresh_devices" /\ call.returned) =>
        /\ \A i, j \in 1..Len(call.ret) : i # j => call.ret[i].text[2] # call.ret[j].text[2]
        /\ \A i \in 1..Len(call.ret) :
            \A k \in 1..Len(ItemsOf(call.ret[i].devices)) :
                ItemsOf(call.ret[i].devices)[k].CATEGORY = call.ret[i].text[2]

\* a refresh has put the devices of two source categories under one category item
C29_Witness ==
    /\ call.fn = "refresh_devices" /\ call.returned
    /\ \E i \in 1..Len(call.ret) :
        \E k, l \in 1..Len(call.ret[i].devices) :
            call.ret[i].devices[k].SUBSYSTEM # call.ret[i].devices[l].SUBSYSTEM

\* C30: after a refresh every category item of the tree has at least one device entry
\* under it, also when the filter removed every network device.
C30_NoEmptyCategory == Settled => \A i \in 1..Len(tree) : tree[i].devices # << >>

====
